---------------------------- MODULE Spec2Model ----------------------------
(***************************************************************************)
(* A model of SHA256.cpp: the global hash registers h0..h7, the round      *)
(* constants k[64], the bit macros, and sha256(input) as a state machine   *)
(* whose steps are the statements and loop iterations of the function.     *)
(*                                                                         *)
(* A uint32_t is the pair <<hi, lo>> of its 16-bit halves (TLC's integers  *)
(* are narrower than 2^32), and every operation keeps the width of the C++ *)
(* type: shifts drop the bits that leave the word and additions drop the   *)
(* carry out of bit 31.  A byte (uint8_t) is a number 0..255; a            *)
(* std::string or a byte vector is a sequence.                             *)
(***************************************************************************)
EXTENDS Integers, Sequences, FiniteSets, TLC

VARIABLES
    H,                      \* the globals h0..h7 (lines 18-25)
    pc,                     \* where each thread is in sha256
    input,                  \* the argument of the thread's current call
    message,                \* line 49
    original_bit_length,    \* line 50
    i,                      \* the chunk loop's index (line 62)
    w,                      \* the message schedule filled so far (line 63)
    j,                      \* the index of the loop running (lines 71, 79)
    regs,                   \* the working variables <<a,b,c,d,e,f,g,h>>
    stmt,                   \* the statement of line 98 to run next (1..8)
    out,                    \* the string the thread's last call returned
    calls,                  \* the number of calls each thread has made
    entry,                  \* h0..h7 as they were when the thread's call began
    log                     \* the calls returned so far: <<input, digest>>

--------------------------------------------------------------------------
(* Bounds of the model *)

\* longest patterned input the single-call specification hashes
MaxLen == 120
\* number of sha256 calls the thread makes in the repeated-call specification
MaxCalls == 2

\* number of values of a uint8_t
ByteValues == 256

--------------------------------------------------------------------------
(* 32-bit words *)

\* one bitwise operation on the low n bits of a and b
RECURSIVE BitOp(_, _, _, _)
BitOp(op, a, b, nbits) ==
    IF nbits = 0 THEN 0
    ELSE 2 * BitOp(op, a \div 2, b \div 2, nbits - 1)
         + (CASE op = "and" -> (a % 2) * (b % 2)
              [] op = "or"  -> IF (a % 2) + (b % 2) > 0 THEN 1 ELSE 0
              [] op = "xor" -> ((a % 2) + (b % 2)) % 2)

\* the operation tabulated on bytes: ByteTable(op)[a + 1][b + 1]
ByteRow(op, a) == SubSeq([b \in 1..256 |-> BitOp(op, a, b - 1, 8)], 1, 256)
ByteTable(op) == SubSeq([a \in 1..256 |-> ByteRow(op, a - 1)], 1, 256)
AndT == ByteTable("and")
OrT == ByteTable("or")
XorT == ByteTable("xor")

\* the tabulated operation on 16-bit operands
Op16(T, a, b) ==
    T[(a \div 256) + 1][(b \div 256) + 1] * 256 + T[(a % 256) + 1][(b % 256) + 1]

\* a 32-bit constant written as its two 16-bit halves
W(hi, lo) == <<hi, lo>>

\* the C++ operators >>, <<, |, &, ^, ~ and + on uint32_t operands
ShiftRightW(x, n) ==
    IF n >= 16 THEN << 0, x[1] \div 2^(n - 16) >>
    ELSE << x[1] \div 2^n, (x[2] \div 2^n) + (x[1] % 2^n) * 2^(16 - n) >>

ShiftLeftW(x, n) ==
    IF n >= 16 THEN << (x[2] * 2^(n - 16)) % 65536, 0 >>
    ELSE << ((x[1] * 2^n) % 65536) + (x[2] \div 2^(16 - n)), (x[2] * 2^n) % 65536 >>

OrW(x, y) == << Op16(OrT, x[1], y[1]), Op16(OrT, x[2], y[2]) >>

AndW(x, y) == << Op16(AndT, x[1], y[1]), Op16(AndT, x[2], y[2]) >>

XorW(x, y) == << Op16(XorT, x[1], y[1]), Op16(XorT, x[2], y[2]) >>

NotW(x) == << 65535 - x[1], 65535 - x[2] >>

\* the carry out of the low half goes into the high half and the carry out
\* of bit 31 is lost
AddW(x, y) ==
    << (x[1] + y[1] + ((x[2] + y[2]) \div 65536)) % 65536, (x[2] + y[2]) % 65536 >>

--------------------------------------------------------------------------
(* The macros of lines 40-46 *)

ROTRIGHT(word, bits) == OrW(ShiftRightW(word, bits), ShiftLeftW(word, 32 - bits))

\* CH with the complement of x left out
CHNoComplement(x, y, z) == XorW(AndW(x, y), AndW(x, z))

CH(x, y, z) == XorW(AndW(x, y), AndW(NotW(x), z))

MAJ(x, y, z) == XorW(XorW(AndW(x, y), AndW(x, z)), AndW(y, z))

EP0(x) == XorW(XorW(ROTRIGHT(x, 2), ROTRIGHT(x, 13)), ROTRIGHT(x, 22))

EP1(x) == XorW(XorW(ROTRIGHT(x, 6), ROTRIGHT(x, 11)), ROTRIGHT(x, 25))

\* SIG0 with its shift by 3 taken for a rotation
SIG0Rotate(x) == XorW(XorW(ROTRIGHT(x, 7), ROTRIGHT(x, 18)), ROTRIGHT(x, 3))

SIG0(x) == XorW(XorW(ROTRIGHT(x, 7), ROTRIGHT(x, 18)), ShiftRightW(x, 3))

SIG1(x) == XorW(XorW(ROTRIGHT(x, 17), ROTRIGHT(x, 19)), ShiftRightW(x, 10))

--------------------------------------------------------------------------
(* The initial hash values (lines 18-25) and round constants (lines 29-38) *)

IV == << W(\H6a09, \He667), W(\Hbb67, \Hae85), W(\H3c6e, \Hf372),
         W(\Ha54f, \Hf53a), W(\H510e, \H527f), W(\H9b05, \H688c),
         W(\H1f83, \Hd9ab), W(\H5be0, \Hcd19) >>

k == <<
 W(\H428a,\H2f98), W(\H7137,\H4491), W(\Hb5c0,\Hfbcf), W(\He9b5,\Hdba5),
 W(\H3956,\Hc25b), W(\H59f1,\H11f1), W(\H923f,\H82a4), W(\Hab1c,\H5ed5),
 W(\Hd807,\Haa98), W(\H1283,\H5b01), W(\H2431,\H85be), W(\H550c,\H7dc3),
 W(\H72be,\H5d74), W(\H80de,\Hb1fe), W(\H9bdc,\H06a7), W(\Hc19b,\Hf174),
 W(\He49b,\H69c1), W(\Hefbe,\H4786), W(\H0fc1,\H9dc6), W(\H240c,\Ha1cc),
 W(\H2de9,\H2c6f), W(\H4a74,\H84aa), W(\H5cb0,\Ha9dc), W(\H76f9,\H88da),
 W(\H983e,\H5152), W(\Ha831,\Hc66d), W(\Hb003,\H27c8), W(\Hbf59,\H7fc7),
 W(\Hc6e0,\H0bf3), W(\Hd5a7,\H9147), W(\H06ca,\H6351), W(\H1429,\H2967),
 W(\H27b7,\H0a85), W(\H2e1b,\H2138), W(\H4d2c,\H6dfc), W(\H5338,\H0d13),
 W(\H650a,\H7354), W(\H766a,\H0abb), W(\H81c2,\Hc92e), W(\H9272,\H2c85),
 W(\Ha2bf,\He8a1), W(\Ha81a,\H664b), W(\Hc24b,\H8b70), W(\Hc76c,\H51a3),
 W(\Hd192,\He819), W(\Hd699,\H0624), W(\Hf40e,\H3585), W(\H106a,\Ha070),
 W(\H19a4,\Hc116), W(\H1e37,\H6c08), W(\H2748,\H774c), W(\H34b0,\Hbcb5),
 W(\H391c,\H0cb3), W(\H4ed8,\Haa4a), W(\H5b9c,\Hca4f), W(\H682e,\H6ff3),
 W(\H748f,\H82ee), W(\H78a5,\H636f), W(\H84c8,\H7814), W(\H8cc7,\H0208),
 W(\H90be,\Hfffa), W(\Ha450,\H6ceb), W(\Hbef9,\Ha3f7), W(\Hc671,\H78f2) >>

--------------------------------------------------------------------------
(* The statements of sha256 (lines 48-107) as operators *)

\* v >> s on an unsigned operand
RECURSIVE ShiftRightN(_, _)
ShiftRightN(v, s) == IF s = 0 \/ v = 0 THEN v ELSE ShiftRightN(v \div 2, s - 1)

\* the zero fill without room for the length field
PadMoreNoLength(msg) == (Len(msg) * 8) % 512 # 0

\* line 54: the condition of the zero-fill loop
PadMore(msg) == (Len(msg) * 8 + 64) % 512 # 0

\* the length field least significant byte first
LengthByteLittleEndian(bitlen, bi) == ShiftRightN(bitlen, bi * 8) % 256

\* line 58: byte i of the length field
LengthByte(bitlen, bi) ==
    ShiftRightN(bitlen, 56 - bi * 8) % 256

\* lines 57-59: the eight length bytes appended, i = 0..7
PushLength(msg, bitlen) ==
    msg \o SubSeq([bi \in 1..8 |-> LengthByte(bitlen, bi - 1)], 1, 8)

\* a uint8_t promoted to int: the same 32 bits as the uint32_t it becomes
ByteInt(b) == << 0, b >>

\* line 67 with its first shift by 25
LoadWordShift25(msg, ci, wi) ==
    OrW(OrW(OrW(ShiftLeftW(ByteInt(msg[ci + wi * 4 + 1]), 25),
                ShiftLeftW(ByteInt(msg[ci + wi * 4 + 2]), 16)),
            ShiftLeftW(ByteInt(msg[ci + wi * 4 + 3]), 8)),
        ByteInt(msg[ci + wi * 4 + 4]))

\* line 67: w[wi], one big-endian word from the four bytes of msg at
\* ci + 4 wi (sequences are indexed from 1 here, arrays from 0 in the code)
LoadWord(msg, ci, wi) ==
    OrW(OrW(OrW(ShiftLeftW(ByteInt(msg[ci + wi * 4 + 1]), 24),
                ShiftLeftW(ByteInt(msg[ci + wi * 4 + 2]), 16)),
            ShiftLeftW(ByteInt(msg[ci + wi * 4 + 3]), 8)),
        ByteInt(msg[ci + wi * 4 + 4]))

\* lines 66-68: w[0..15]
LoadWords(msg, ci) == SubSeq([wi \in 1..16 |-> LoadWord(msg, ci, wi - 1)], 1, 16)

\* line 72: w[wi] from the words before it (wi counted from 0 as j is in
\* the code)
ExtendWord(ws, wi) ==
    AddW(AddW(AddW(SIG1(ws[wi - 2 + 1]), ws[wi - 7 + 1]), SIG0(ws[wi - 15 + 1])),
         ws[wi - 16 + 1])

\* lines 80-94: round ri on the working variables r = <<a,b,c,d,e,f,g,h>>
RoundStep(r, ws, ri) ==
    LET S1 == EP1(r[5])
        ch == CH(r[5], r[6], r[7])
        temp1 == AddW(AddW(AddW(AddW(r[8], S1), ch), k[ri + 1]), ws[ri + 1])
        S0 == EP0(r[1])
        maj == MAJ(r[1], r[2], r[3])
        temp2 == AddW(S0, maj)
    IN  << AddW(temp1, temp2), r[1], r[2], r[3],
           AddW(r[4], temp1), r[5], r[6], r[7] >>

\* line 98: its rn-th statement, which adds the rn-th working variable to
\* the rn-th global
AddRegister(hs, r, rn) == [hs EXCEPT ![rn] = AddW(hs[rn], r[rn])]

\* the characters of the hexadecimal digits (std::hex, no std::uppercase)
HexChars == << "0", "1", "2", "3", "4", "5", "6", "7",
               "8", "9", "a", "b", "c", "d", "e", "f" >>

\* the base-16 digits of a uint32_t, most significant first
Nibbles(x) == << x[1] \div 4096, (x[1] \div 256) % 16, (x[1] \div 16) % 16, x[1] % 16,
                 x[2] \div 4096, (x[2] \div 256) % 16, (x[2] \div 16) % 16, x[2] % 16 >>

\* what operator<< writes for an unsigned value: its digits with no leading
\* zeros (one digit for the value 0)
RECURSIVE StripZeros(_)
StripZeros(d) == IF Len(d) > 1 /\ d[1] = 0 THEN StripZeros(Tail(d)) ELSE d

\* std::setw(width) with std::setfill(fill): fill characters in front, up to
\* the width
RECURSIVE PadLeft(_, _, _)
PadLeft(chars, width, fill) ==
    IF Len(chars) < width THEN PadLeft(<<fill>> \o chars, width, fill) ELSE chars

\* a register written without std::setw(8): no fill
FormatWordNoWidth(x) ==
    LET d == StripZeros(Nibbles(x))
    IN  SubSeq([p \in 1..Len(d) |-> HexChars[d[p] + 1]], 1, Len(d))

\* lines 103-105: ss << std::setw(8) << x, under std::hex and setfill('0')
FormatWord(x) ==
    LET d == StripZeros(Nibbles(x))
    IN  PadLeft(SubSeq([p \in 1..Len(d) |-> HexChars[d[p] + 1]], 1, Len(d)), 8, "0")

\* lines 102-106: the eight registers in order
Format(hs) ==
    FormatWord(hs[1]) \o FormatWord(hs[2]) \o FormatWord(hs[3]) \o FormatWord(hs[4])
    \o FormatWord(hs[5]) \o FormatWord(hs[6]) \o FormatWord(hs[7]) \o FormatWord(hs[8])

--------------------------------------------------------------------------
(* The program state *)

\* the threads of the process that call sha256
Threads == {1, 2}

vars == << H, pc, input, message, original_bit_length, i, w, j, regs, stmt, out,
           calls, entry, log >>

\* the process starts: the globals hold their initialisers and no thread
\* has called sha256
Start ==
    /\ H = IV
    /\ pc = [t \in Threads |-> "idle"]
    /\ input = [t \in Threads |-> <<>>]
    /\ message = [t \in Threads |-> <<>>]
    /\ original_bit_length = [t \in Threads |-> 0]
    /\ i = [t \in Threads |-> 0]
    /\ w = [t \in Threads |-> <<>>]
    /\ j = [t \in Threads |-> 0]
    /\ regs = [t \in Threads |-> IV]
    /\ stmt = [t \in Threads |-> 1]
    /\ out = [t \in Threads |-> <<>>]
    /\ calls = [t \in Threads |-> 0]
    /\ entry = [t \in Threads |-> IV]

Init == Start /\ log = <<>>

--------------------------------------------------------------------------
(* The steps of sha256 *)

\* lines 48-50: the call; message is a copy of the input's bytes
Call(t, x) ==
    /\ pc[t] \in {"idle", "done"}
    /\ pc' = [pc EXCEPT ![t] = "pad"]
    /\ input' = [input EXCEPT ![t] = x]
    /\ message' = [message EXCEPT ![t] = x]
    /\ original_bit_length' = [original_bit_length EXCEPT ![t] = Len(x) * 8]
    /\ calls' = [calls EXCEPT ![t] = @ + 1]
    /\ entry' = [entry EXCEPT ![t] = H]
    /\ UNCHANGED << H, i, w, j, regs, stmt, out, log >>

\* line 53
PushTerminator(t) ==
    /\ pc[t] = "pad"
    /\ message' = [message EXCEPT ![t] = Append(@, 128)]
    /\ pc' = [pc EXCEPT ![t] = "fill"]
    /\ UNCHANGED << H, input, original_bit_length, i, w, j, regs, stmt, out, calls, entry, log >>

\* the zero fill as a do-while loop: a zero is pushed before the first test
PushZeroFirst(t) ==
    /\ pc[t] = "fill"
    /\ PadMore(message[t]) \/ Len(message[t]) = Len(input[t]) + 1
    /\ message' = [message EXCEPT ![t] = Append(@, 0)]
    /\ UNCHANGED << H, pc, input, original_bit_length, i, w, j, regs, stmt, out, calls, entry, log >>

\* lines 54-56: one iteration of the zero fill
PushZero(t) ==
    /\ pc[t] = "fill"
    /\ PadMore(message[t])
    /\ message' = [message EXCEPT ![t] = Append(@, 0)]
    /\ UNCHANGED << H, pc, input, original_bit_length, i, w, j, regs, stmt, out, calls, entry, log >>

\* lines 57-59, and the chunk loop starts at i = 0 (line 62)
PushLengthBytes(t) ==
    /\ pc[t] = "fill"
    /\ ~PadMore(message[t])
    /\ message' = [message EXCEPT ![t] = PushLength(@, original_bit_length[t])]
    /\ i' = [i EXCEPT ![t] = 0]
    /\ pc' = [pc EXCEPT ![t] = "chunk"]
    /\ UNCHANGED << H, input, original_bit_length, w, j, regs, stmt, out, calls, entry, log >>

\* line 62's test passes; lines 63-68 fill w[0..15]; line 71 starts at j = 16
BeginChunk(t) ==
    /\ pc[t] = "chunk"
    /\ i[t] < Len(message[t])
    /\ w' = [w EXCEPT ![t] = LoadWords(message[t], i[t])]
    /\ j' = [j EXCEPT ![t] = 16]
    /\ pc' = [pc EXCEPT ![t] = "extend"]
    /\ UNCHANGED << H, input, message, original_bit_length, i, regs, stmt, out, calls, entry, log >>

\* lines 71-73: one iteration
Extend(t) ==
    /\ pc[t] = "extend"
    /\ j[t] < 64
    /\ w' = [w EXCEPT ![t] = Append(@, ExtendWord(@, j[t]))]
    /\ j' = [j EXCEPT ![t] = @ + 1]
    /\ UNCHANGED << H, pc, input, message, original_bit_length, i, regs, stmt, out, calls, entry, log >>

\* the working variables initialised from the constants, not from h0..h7
InitWorkingFromIV(t) ==
    /\ pc[t] = "extend"
    /\ j[t] >= 64
    /\ regs' = [regs EXCEPT ![t] = IV]
    /\ j' = [j EXCEPT ![t] = 0]
    /\ pc' = [pc EXCEPT ![t] = "round"]
    /\ UNCHANGED << H, input, message, original_bit_length, i, w, stmt, out, calls, entry, log >>

\* line 76, and line 79 starts at j = 0
InitWorking(t) ==
    /\ pc[t] = "extend"
    /\ j[t] >= 64
    /\ regs' = [regs EXCEPT ![t] = H]
    /\ j' = [j EXCEPT ![t] = 0]
    /\ pc' = [pc EXCEPT ![t] = "round"]
    /\ UNCHANGED << H, input, message, original_bit_length, i, w, stmt, out, calls, entry, log >>

\* lines 79-95: one round
Round(t) ==
    /\ pc[t] = "round"
    /\ j[t] < 64
    /\ regs' = [regs EXCEPT ![t] = RoundStep(@, w[t], j[t])]
    /\ j' = [j EXCEPT ![t] = @ + 1]
    /\ UNCHANGED << H, pc, input, message, original_bit_length, i, w, stmt, out, calls, entry, log >>

\* line 79's test fails: on to line 98
EndRounds(t) ==
    /\ pc[t] = "round"
    /\ j[t] >= 64
    /\ stmt' = [stmt EXCEPT ![t] = 1]
    /\ pc' = [pc EXCEPT ![t] = "add"]
    /\ UNCHANGED << H, input, message, original_bit_length, i, w, j, regs, out, calls, entry, log >>

\* line 98: one of its eight statements
AddChunk(t) ==
    /\ pc[t] = "add"
    /\ stmt[t] <= 8
    /\ H' = AddRegister(H, regs[t], stmt[t])
    /\ stmt' = [stmt EXCEPT ![t] = @ + 1]
    /\ UNCHANGED << pc, input, message, original_bit_length, i, w, j, regs, out, calls, entry, log >>

\* line 62: i += 64, back to the test
NextChunk(t) ==
    /\ pc[t] = "add"
    /\ stmt[t] > 8
    /\ i' = [i EXCEPT ![t] = @ + 64]
    /\ pc' = [pc EXCEPT ![t] = "chunk"]
    /\ UNCHANGED << H, input, message, original_bit_length, w, j, regs, stmt, out, calls, entry, log >>

\* line 62's test fails; lines 102-106 format the globals and return
Return(t) ==
    /\ pc[t] = "chunk"
    /\ i[t] >= Len(message[t])
    /\ out' = [out EXCEPT ![t] = Format(H)]
    /\ log' = Append(log, << input[t], Format(H) >>)
    /\ pc' = [pc EXCEPT ![t] = "done"]
    /\ UNCHANGED << H, input, message, original_bit_length, i, w, j, regs, stmt, calls, entry >>

\* a step of thread t inside sha256
Step(t) ==
    \/ PushTerminator(t)
    \/ PushZero(t)
    \/ PushLengthBytes(t)
    \/ BeginChunk(t)
    \/ Extend(t)
    \/ InitWorking(t)
    \/ Round(t)
    \/ EndRounds(t)
    \/ AddChunk(t)
    \/ NextChunk(t)
    \/ Return(t)

--------------------------------------------------------------------------
(* The inputs and the specifications *)

\* an input of len bytes; its bytes take values on both sides of 0x80
Pattern(len) == SubSeq([p \in 1..len |-> (p * 37 + len * 11) % 256], 1, len)

abc == << 97, 98, 99 >>

Inputs == { Pattern(len) : len \in 0..MaxLen } \cup { abc }

SmallInputs == { <<>>, abc, Pattern(56) }

\* the first call in a process (as main makes it, line 129), on any input
FirstCall == calls[1] = 0 /\ \E x \in Inputs : Call(1, x)

Next == FirstCall \/ Step(1)

Spec == Init /\ [][Next]_vars

\* one thread calls sha256 again and again
RepeatedCall == calls[1] < MaxCalls /\ \E x \in SmallInputs : Call(1, x)

NextCalls == RepeatedCall \/ Step(1)

SpecCalls == Init /\ [][NextCalls]_vars

\* two threads of one process call sha256 once each, on independent inputs,
\* and run concurrently: their statements interleave in any order
ParInput == << Pattern(54), Pattern(53) >>

ParCall == \E t \in Threads : calls[t] = 0 /\ Call(t, ParInput[t])

ParStep == \E t \in Threads : Step(t)

NextPar == ParCall \/ ParStep

SpecPar == Init /\ [][NextPar]_vars

\* the program is run once for every one-byte input, in increasing order:
\* each run is a new process, whose globals hold their initialisers, and
\* log keeps what the runs returned
Exec ==
    /\ pc[1] = "done"
    /\ Len(log) < ByteValues
    /\ H' = IV
    /\ pc' = [t \in Threads |-> "idle"]
    /\ input' = [t \in Threads |-> <<>>]
    /\ message' = [t \in Threads |-> <<>>]
    /\ original_bit_length' = [t \in Threads |-> 0]
    /\ i' = [t \in Threads |-> 0]
    /\ w' = [t \in Threads |-> <<>>]
    /\ j' = [t \in Threads |-> 0]
    /\ regs' = [t \in Threads |-> IV]
    /\ stmt' = [t \in Threads |-> 1]
    /\ out' = [t \in Threads |-> <<>>]
    /\ calls' = [t \in Threads |-> 0]
    /\ entry' = [t \in Threads |-> IV]
    /\ UNCHANGED log

\* the one-byte input of run n: 0, 128, 1, 129, ..., 127, 255
ByteOf(n) == (n % 2) * (ByteValues \div 2) + (n \div 2)

ByteCall ==
    calls[1] = 0 /\ Len(log) < ByteValues /\ Call(1, << ByteOf(Len(log)) >>)

NextRuns == Exec \/ ByteCall \/ Step(1)

SpecRuns == Init /\ [][NextRuns]_vars

--------------------------------------------------------------------------
(* sha256 as a function of the registers it starts from and its input *)

\* lines 53-59
RECURSIVE ZeroFill(_)
ZeroFill(msg) == IF PadMore(msg) THEN ZeroFill(Append(msg, 0)) ELSE msg

Padded(x) == PushLength(ZeroFill(Append(x, 128)), Len(x) * 8)

\* lines 66-73
RECURSIVE ExtendAll(_)
ExtendAll(ws) ==
    IF Len(ws) < 64 THEN ExtendAll(Append(ws, ExtendWord(ws, Len(ws)))) ELSE ws

\* lines 79-95, from the pair << working variables, round >>
RECURSIVE Rounds(_, _)
Rounds(s, ws) ==
    IF s[2] < 64 THEN Rounds(<< RoundStep(s[1], ws, s[2]), s[2] + 1 >>, ws) ELSE s[1]

\* line 98
AddAll(hs, r) ==
    AddRegister(AddRegister(AddRegister(AddRegister(AddRegister(AddRegister(
    AddRegister(AddRegister(hs, r, 1), r, 2), r, 3), r, 4), r, 5), r, 6), r, 7), r, 8)

\* lines 63-98: one chunk
Compress(hs, msg, ci) ==
    AddAll(hs, Rounds(<< hs, 0 >>, ExtendAll(LoadWords(msg, ci))))

\* lines 62-99: the first nblocks chunks of msg
RECURSIVE Chunks(_, _, _)
Chunks(hs, msg, nblocks) ==
    IF nblocks = 0 THEN hs
    ELSE Compress(Chunks(hs, msg, nblocks - 1), msg, (nblocks - 1) * 64)

\* the string sha256(x) returns when the globals hold hs at the call and
\* nothing else touches them
Sha256From(hs, x) == Format(Chunks(hs, Padded(x), Len(Padded(x)) \div 64))

\* a sequence of characters as a string
RECURSIVE Str(_)
Str(chars) == IF chars = <<>> THEN "" ELSE Head(chars) \o Str(Tail(chars))

--------------------------------------------------------------------------
(* Determinism and independence *)

\* C1: any two calls of sha256 with the same input, made one after the
\* other in one process, return the same string.
C1_RepeatedCallsAgree ==
    \A a, b \in 1..Len(log) : log[a][1] = log[b][1] => log[a][2] = log[b][2]

\* C2: when two calls on independent inputs run concurrently, each returns
\* the string it returns when it runs alone from the initial registers.
C2_ParallelIndependence ==
    \A t \in Threads : pc[t] = "done" => out[t] = Sha256From(IV, input[t])

--------------------------------------------------------------------------
(* The digest of the first call *)

\* C3: the first call in a process returns e3b0c442...7852b855 for the
\* empty input, which is padded to and processed as exactly one block, and
\* ba7816bf...f20015ad for "abc".
C3_KnownVectors ==
    /\ pc[1] = "done" /\ input[1] = <<>> =>
         /\ Str(out[1]) = "e3b0c44298fc1c149afbf4c8996fb92427ae41e4649b934ca495991b7852b855"
         /\ Len(message[1]) = 64
         /\ i[1] = 64
    /\ pc[1] = "done" /\ input[1] = abc =>
         Str(out[1]) = "ba7816bf8f01cfea414140de5dae2223b00361a396177a9cb410ff61f20015ad"

C3_Witness ==
    /\ pc[1] = "done"
    /\ input[1] = <<>>
    /\ Str(out[1]) = "e3b0c44298fc1c149afbf4c8996fb92427ae41e4649b934ca495991b7852b855"

--------------------------------------------------------------------------
(* Padding *)

\* the padding is complete once the chunk loop has started
PaddingDone(t) == pc[t] \in {"chunk", "extend", "round", "add", "done"}

\* the number of zero bytes between the 0x80 byte and the length field
ZeroCount(t) == Len(message[t]) - Len(input[t]) - 9

\* the last eight bytes of the message as one big-endian number (the first
\* four are zero for every length the model reaches)
LengthField(t) ==
    LET m == message[t]
        e == Len(m)
    IN  IF m[e - 7] = 0 /\ m[e - 6] = 0 /\ m[e - 5] = 0 /\ m[e - 4] = 0
        THEN ((m[e - 3] * 256 + m[e - 2]) * 256 + m[e - 1]) * 256 + m[e]
        ELSE -1

\* C4: the padded message is the input, one 0x80 byte, z zero bytes with
\* 0 <= z <= 63, and 8 * n as eight big-endian bytes, z being the least
\* number that makes the length a multiple of 64; the length is
\* 64 * (floor((n + 8) / 64) + 1).
C4_PaddingLayout ==
    PaddingDone(1) =>
        LET len == Len(input[1])
            m == message[1]
        IN  /\ Len(m) = 64 * (((len + 8) \div 64) + 1)
            /\ SubSeq(m, 1, len) = input[1]
            /\ m[len + 1] = 128
            /\ ZeroCount(1) \in 0..63
            /\ \A p \in (len + 2)..(len + 1 + ZeroCount(1)) : m[p] = 0
            /\ \A z \in 0..(ZeroCount(1) - 1) : (len + 1 + z + 8) % 64 # 0
            /\ LengthField(1) = 8 * len
            /\ (len = 55 => Len(m) = 64)
            /\ (len = 56 => Len(m) = 128)

C4_Witness ==
    /\ pc[1] = "done"
    /\ Len(input[1]) = 56
    /\ Len(message[1]) = 128
    /\ ZeroCount(1) = 63

\* the chunks compressed by the call beyond the full chunks of the input
ExtraBlocks(t) == (i[t] \div 64) - (Len(input[t]) \div 64)

\* C5, as the specification words it: one extra block if at most 55 bytes
\* of room remain in the partial block (64 - n % 64 <= 55), two otherwise.
C5_RoomAtMost55 ==
    pc[1] = "done" =>
        ExtraBlocks(1) = IF 64 - (Len(input[1]) % 64) <= 55 THEN 1 ELSE 2

\* C5, amended: one extra block if the partial block holds at most 55 bytes
\* (n % 64 <= 55, at least 9 bytes of room), two otherwise.
C5_HeldAtMost55 ==
    pc[1] = "done" =>
        ExtraBlocks(1) = IF Len(input[1]) % 64 <= 55 THEN 1 ELSE 2

C5_Witness ==
    /\ pc[1] = "done"
    /\ Len(input[1]) % 64 = 60
    /\ ExtraBlocks(1) = 2

--------------------------------------------------------------------------
(* The output string *)

LowerHex == { "0", "1", "2", "3", "4", "5", "6", "7", "8", "9",
              "a", "b", "c", "d", "e", "f" }

\* digit d (1 the most significant, 8 the least) of a register in base 16
HexDigit(x, d) ==
    IF d <= 4 THEN (x[1] \div 16^(4 - d)) % 16 ELSE (x[2] \div 16^(8 - d)) % 16

\* the character of a digit
DigitChar(v) ==
    CASE v = 0 -> "0" [] v = 1 -> "1" [] v = 2 -> "2" [] v = 3 -> "3"
      [] v = 4 -> "4" [] v = 5 -> "5" [] v = 6 -> "6" [] v = 7 -> "7"
      [] v = 8 -> "8" [] v = 9 -> "9" [] v = 10 -> "a" [] v = 11 -> "b"
      [] v = 12 -> "c" [] v = 13 -> "d" [] v = 14 -> "e" [] v = 15 -> "f"

\* C6: sha256 returns exactly 64 lowercase hexadecimal characters: the
\* registers h0..h7 in order, each as exactly 8 digits, most significant
\* first, leading zeros kept.
C6_OutputFormat ==
    pc[1] = "done" =>
        /\ Len(out[1]) = 64
        /\ \A p \in 1..Len(out[1]) : out[1][p] \in LowerHex
        /\ \A rn \in 1..8 : \A d \in 1..8 :
               (rn - 1) * 8 + d <= Len(out[1])
               /\ out[1][(rn - 1) * 8 + d] = DigitChar(HexDigit(H[rn], d))

\* a call that returned with a register below 0x10000000
C6_Witness ==
    /\ pc[1] = "done"
    /\ \E rn \in 1..8 : H[rn][1] < 4096
    /\ Len(out[1]) = 64

--------------------------------------------------------------------------
(* Sensitivity *)

\* x and y are inputs of the same length that differ in exactly one bit
OneBitApart(x, y) ==
    /\ Len(x) = Len(y)
    /\ \E p \in 1..Len(x) :
          /\ XorT[x[p] + 1][y[p] + 1] \in {1, 2, 4, 8, 16, 32, 64, 128}
          /\ \A q \in 1..Len(x) : q # p => x[q] = y[q]

\* C7: the digests, each computed from the initial registers, of two
\* one-byte inputs that differ in one bit are different.
C7_OneBitFlip ==
    pc[1] = "done" =>
        \A a, b \in 1..Len(log) :
            OneBitApart(log[a][1], log[b][1]) => log[a][2] # log[b][2]

\* two one-byte inputs one bit apart have been hashed, each by a run of the
\* program from its initial registers, and their digests differ
C7_Witness ==
    /\ pc[1] = "done"
    /\ Len(log) = 4
    /\ OneBitApart(log[1][1], log[2][1])
    /\ OneBitApart(log[2][1], log[4][1])
    /\ log[1][2] # log[2][2]
    /\ log[2][2] # log[4][2]

--------------------------------------------------------------------------
(* 32-bit arithmetic as the algorithm states it, bit by bit and byte by    *)
(* byte, to compare the code's words with                                  *)

Half == 0..65535

IsWord(x) == Len(x) = 2 /\ x[1] \in Half /\ x[2] \in Half

\* bit p of a word, p = 1 the most significant and p = 32 the least
BitAt(x, p) ==
    IF p <= 16 THEN (x[1] \div 2^(16 - p)) % 2 ELSE (x[2] \div 2^(32 - p)) % 2

\* the number whose binary digits are f[lo..hi]
RECURSIVE BitSum(_, _, _)
BitSum(f, lo, hi) == IF lo > hi THEN 0 ELSE f[hi] + 2 * BitSum(f, lo, hi - 1)

\* the word whose bits are f[1..32]
WordOfBits(f) == << BitSum(f, 1, 16), BitSum(f, 17, 32) >>

\* rotation to the right by c places: bit p comes from c places to its left
Rotr(x, c) == WordOfBits([p \in 1..32 |-> BitAt(x, ((p - 1 - c + 32) % 32) + 1)])

\* shift to the right by c places, zeros coming in
Shr(x, c) == WordOfBits([p \in 1..32 |-> IF p <= c THEN 0 ELSE BitAt(x, p - c)])

Xor3(x, y, z) ==
    WordOfBits([p \in 1..32 |-> (BitAt(x, p) + BitAt(y, p) + BitAt(z, p)) % 2])

Sigma0(x) == Xor3(Rotr(x, 7), Rotr(x, 18), Shr(x, 3))

Sigma1(x) == Xor3(Rotr(x, 17), Rotr(x, 19), Shr(x, 10))

Sum0(x) == Xor3(Rotr(x, 2), Rotr(x, 13), Rotr(x, 22))

Sum1(x) == Xor3(Rotr(x, 6), Rotr(x, 11), Rotr(x, 25))

\* (x AND y) XOR (NOT x AND z): each bit is y's where x has 1, z's elsewhere
Choice(x, y, z) ==
    WordOfBits([p \in 1..32 |-> IF BitAt(x, p) = 1 THEN BitAt(y, p) ELSE BitAt(z, p)])

\* (x AND y) XOR (x AND z) XOR (y AND z): each bit is the majority's
Majority(x, y, z) ==
    WordOfBits([p \in 1..32 |->
                   IF BitAt(x, p) + BitAt(y, p) + BitAt(z, p) >= 2 THEN 1 ELSE 0])

\* the four bytes of a word, most significant first
Bytes(x) == << x[1] \div 256, x[1] % 256, x[2] \div 256, x[2] % 256 >>

\* (x + y) mod 2^32, added byte by byte from the least significant
Plus(x, y) ==
    LET a == Bytes(x)
        b == Bytes(y)
        s4 == a[4] + b[4]
        s3 == a[3] + b[3] + (s4 \div 256)
        s2 == a[2] + b[2] + (s3 \div 256)
        s1 == a[1] + b[1] + (s2 \div 256)
    IN  << (s1 % 256) * 256 + (s2 % 256), (s3 % 256) * 256 + (s4 % 256) >>

--------------------------------------------------------------------------
(* The message schedule *)

\* the schedule of the current chunk is complete
ScheduleDone(t) == pc[t] = "extend" /\ j[t] = 64

\* C8: w[0..15] are the big-endian values of the chunk's 4-byte groups,
\* w[16..63] follow w[j] = SIG1(w[j-2]) + w[j-7] + SIG0(w[j-15]) + w[j-16]
\* mod 2^32, and every w[j] is within 0..2^32-1.  (w[j] of the code is
\* w[1][j + 1] here.)
C8_Schedule ==
    ScheduleDone(1) =>
        LET m == message[1]
            c == i[1]
            ws == w[1]
        IN  /\ Len(ws) = 64
            /\ \A wi \in 1..64 : IsWord(ws[wi])
            /\ \A wi \in 0..15 :
                   ws[wi + 1] = << m[c + 4 * wi + 1] * 256 + m[c + 4 * wi + 2],
                                   m[c + 4 * wi + 3] * 256 + m[c + 4 * wi + 4] >>
            /\ \A wi \in 16..63 :
                   ws[wi + 1] = Plus(Plus(Plus(Sigma1(ws[wi - 2 + 1]), ws[wi - 7 + 1]),
                                          Sigma0(ws[wi - 15 + 1])),
                                     ws[wi - 16 + 1])

\* a complete schedule of a chunk with a group whose first byte is >= 0x80
C8_Witness ==
    /\ ScheduleDone(1)
    /\ Len(w[1]) = 64
    /\ \E wi \in 0..15 :
          /\ message[1][i[1] + 4 * wi + 1] >= 128
          /\ w[1][wi + 1][1] >= 32768

--------------------------------------------------------------------------
(* The compression function *)

\* one round as the algorithm states it, on r = <<a,b,c,d,e,f,g,h>>
RoundOf(r, kj, wj) ==
    LET t1 == Plus(Plus(Plus(Plus(r[8], Sum1(r[5])), Choice(r[5], r[6], r[7])), kj), wj)
        t2 == Plus(Sum0(r[1]), Majority(r[1], r[2], r[3]))
    IN  << Plus(t1, t2), r[1], r[2], r[3], Plus(r[4], t1), r[5], r[6], r[7] >>

C9_Step ==
    /\ pc[1] = "extend" /\ pc'[1] = "round" => regs'[1] = H
    /\ pc[1] = "round" /\ j'[1] = j[1] + 1 =>
           regs'[1] = RoundOf(regs[1], k[j[1] + 1], w[1][j[1] + 1])
    /\ pc[1] = "round" /\ pc'[1] = "add" => j[1] = 64 /\ regs'[1] = regs[1]
    /\ pc[1] = "add" /\ stmt'[1] = stmt[1] + 1 =>
           H' = [H EXCEPT ![stmt[1]] = Plus(H[stmt[1]], regs[1][stmt[1]])]
    /\ \A rn \in 1..8 : IsWord(H'[rn]) /\ IsWord(regs'[1][rn])

\* C9: the working variables start as h0..h7; round j sets them to
\* (t1 + t2, a, b, c, d + t1, e, f, g) with t1 = h + EP1(e) + CH(e,f,g) +
\* k[j] + w[j] and t2 = EP0(a) + MAJ(a,b,c); after round 63 each register
\* has its working variable added to it; all sums are mod 2^32 and every
\* register stays within 0..2^32-1.
C9_Compression == [][C9_Step]_vars

\* two chunks have gone through their 64 rounds and been added
C9_Witness ==
    /\ pc[1] = "chunk"
    /\ i[1] = 128
    /\ H # IV
    /\ j[1] = 64

--------------------------------------------------------------------------
(* The discipline of the updates of h0..h7 *)

C10_State ==
    /\ pc[1] \in {"chunk", "done"} =>
           /\ i[1] % 64 = 0
           /\ i[1] <= Len(message[1])
           /\ H = Chunks(entry[1], message[1], i[1] \div 64)
    /\ pc[1] = "done" => i[1] = Len(message[1])

C10_Step ==
    /\ H' # H =>
           /\ pc[1] = "add" /\ pc'[1] = "add"
           /\ stmt[1] \in 1..8 /\ stmt'[1] = stmt[1] + 1
           /\ \A rn \in 1..8 : rn # stmt[1] => H'[rn] = H[rn]
    /\ i'[1] # i[1] =>
           \/ pc[1] = "fill" /\ i'[1] = 0
           \/ pc[1] = "add" /\ stmt[1] = 9 /\ i'[1] = i[1] + 64

\* C10: within a call h0..h7 are written only by line 98, after a chunk's
\* 64 rounds, each register once per chunk, chunk after chunk in increasing
\* order; after the chunk at i has been added the registers are the
\* registers at the call folded with the compression of the chunks up to
\* it; the loop ends after (padded length / 64) chunks.
C10_UpdateDiscipline == []C10_State /\ [][C10_Step]_vars

\* a second call, of two chunks, has returned
C10_Witness ==
    /\ pc[1] = "done"
    /\ calls[1] = 2
    /\ entry[1] # IV
    /\ Len(message[1]) = 128
    /\ i[1] = 128

==========================================================================
